---- MODULE Spec2Model ----
(***************************************************************************)
(* Model of PointCloudReaderRaw (src/src/pc_reader_raw.rs): the pull       *)
(* iterator that refills per-stream value queues from the data packets of  *)
(* a compressed vector section and joins them into raw points.             *)
(*                                                                         *)
(* The section is an input: a sequence of packets as the reader meets them *)
(* on successive header reads.  After a header that makes advance() fail   *)
(* (Index, Ignored, wrong bytestream count) the cursor stays behind that   *)
(* header, and the next element of the sequence stands for whatever the    *)
(* following bytes parse as.  The end of the sequence is the end of the    *)
(* file: every read there fails.                                           *)
(***************************************************************************)
EXTENDS Integers, Sequences, FiniteSets, TLC

\* ------------------------------------------------------------------ bounds
MaxPackets == 2
MaxRecords == 2
MaxChunks == 1
MaxCalls == 4

\* ------------------------------------------------------- record data types
FSingle == [kind |-> "Single", min |-> 0, max |-> 0]
FDouble == [kind |-> "Double", min |-> 0, max |-> 0]
FInteger(lo, hi) == [kind |-> "Integer", min |-> lo, max |-> hi]
FScaledInteger(lo, hi) == [kind |-> "ScaledInteger", min |-> lo, max |-> hi]

\* Prototypes the descriptor may carry: all four column kinds, a range that
\* is no power of two (3 bits for 5 values), a negative minimum, a degenerate
\* column (min = max) and an inverted range.
Prototypes ==
    { << FInteger(0, 4), FScaledInteger(-2, 1) >>,
      << FSingle, FInteger(0, 255) >>,
      << FDouble >>,
      << FScaledInteger(7, 7), FInteger(0, 4) >>,
      << FInteger(0, 4), FInteger(3, 1) >> }

\* bits = ceil(log2(max - min + 1))
BitsFor(lo, hi) ==
    CHOOSE b \in 0..16 :
        /\ 2^b >= hi - lo + 1
        /\ (b = 0 \/ 2^(b - 1) < hi - lo + 1)

\* Width in bits of one value of a column.
ValueBits(t) ==
    CASE t.kind = "Single" -> 4 * 8
      [] t.kind = "Double" -> 8 * 8
      [] OTHER -> BitsFor(t.min, t.max)

\* ------------------------------------------------------ ByteStreamBuffer
\* The buffer is the sequence of its unread bits, oldest first; within a
\* byte bit 0 (the least significant) comes first.
ByteBits(bytes) ==
    [k \in 1..(8 * Len(bytes)) |->
        (bytes[((k - 1) \div 8) + 1] \div (2^((k - 1) % 8))) % 2]

append(bs, bytes) == bs \o ByteBits(bytes)

available_bits(bs) == Len(bs)

RECURSIVE BitsValue(_)
BitsValue(bits) ==
    IF bits = <<>> THEN 0 ELSE Head(bits) + 2 * BitsValue(Tail(bits))

\* The k-th (from 1) field of w bits at the head of the buffer.
Field(bs, w, k) == SubSeq(bs, (k - 1) * w + 1, k * w)

\* The bytes of the k-th field of nbytes bytes, in file (little-endian) order.
FieldBytes(bs, nbytes, k) ==
    [j \in 1..nbytes |-> BitsValue(Field(Field(bs, 8 * nbytes, k), 8, j))]

Drop(bs, n) == SubSeq(bs, n + 1, Len(bs))

\* ------------------------------------------------------------- BitPack
\* Each decoder drains every whole value from the buffer into the queue and
\* answers [err, bs, q].
unpack_floats(tag, nbytes, bs, q) ==
    LET n == available_bits(bs) \div (8 * nbytes)
    IN [err |-> "ok",
        bs |-> Drop(bs, n * 8 * nbytes),
        q |-> q \o [k \in 1..n |-> [tag |-> tag, v |-> FieldBytes(bs, nbytes, k)]]]

unpack_singles(bs, q) == unpack_floats("Single", 4, bs, q)

unpack_doubles(bs, q) == unpack_floats("Double", 8, bs, q)

unpack_bits(tag, bs, lo, hi, q) ==
    IF hi < lo THEN [err |-> "Invalid", bs |-> bs, q |-> q]
    ELSE LET bits == BitsFor(lo, hi)
             n == IF bits = 0 THEN 0 ELSE available_bits(bs) \div bits
         IN [err |-> "ok",
             bs |-> Drop(bs, n * bits),
             q |-> q \o [k \in 1..n |->
                     [tag |-> tag, v |-> lo + BitsValue(Field(bs, bits, k))]]]

unpack_scaled_ints(bs, lo, hi, q) == unpack_bits("ScaledInteger", bs, lo, hi, q)

unpack_ints(bs, lo, hi, q) == unpack_bits("Integer", bs, lo, hi, q)

\* ------------------------------------------------------------ the section
Seeds == {0, 255}

FillByte(seed, p, s, j) == (seed + 32 * (p - 1) + 8 * (s - 1) + (j - 1)) % 256

Fill(seed, p, s, n) == [j \in 1..n |-> FillByte(seed, p, s, j)]

\* Payload sizes come in chunks of a byte (bit-packed columns), half a
\* single or half a double, so that a value may straddle two packets.
Granule(t) ==
    CASE t.kind = "Single" -> 2
      [] t.kind = "Double" -> 4
      [] OTHER -> 1

SizeVectors(proto) ==
    { sz \in [1..Len(proto) -> 0..(MaxChunks * 4)] :
        \A i \in 1..Len(proto) :
            \E c \in 0..MaxChunks : sz[i] = c * Granule(proto[i]) }

\* What one packet of the section may be: a complete data packet, an index or
\* ignored packet, a data packet with one stream too many or too few, and
\* (cut) a data packet in which the file ends.
PacketShapes(proto) ==
    { [kind |-> "Data", count |-> Len(proto), sizes |-> sz, cut |-> "no"] :
        sz \in SizeVectors(proto) }
    \cup { [kind |-> k, count |-> 0, sizes |-> <<>>, cut |-> "no"] :
        k \in {"Index", "Ignored"} }
    \cup { [kind |-> "Data", count |-> n, sizes |-> [i \in 1..n |-> 1], cut |-> "no"] :
        n \in {Len(proto) - 1, Len(proto) + 1} }
    \cup { [kind |-> "Data", count |-> Len(proto),
            sizes |-> [i \in 1..Len(proto) |-> Granule(proto[i])], cut |-> c] :
        c \in {"sizes", "payload"} }

SectionShapes(proto) ==
    UNION { { sh \in [1..n -> PacketShapes(proto)] :
                \A p \in 1..n : sh[p].cut # "no" => p = n } :
            n \in 0..MaxPackets }

\* The packet as it lies in the file: the sizes and payload bytes present.
\* A packet cut in its size table lacks the last size; one cut in its payload
\* lacks the last byte of its last stream.
Packet(shape, seed, p) ==
    LET n == shape.count
        have == IF shape.cut = "sizes" THEN n - 1 ELSE n
    IN [kind |-> shape.kind,
        bytestream_count |-> n,
        sizes |-> SubSeq(shape.sizes, 1, have),
        payload |-> [s \in 1..have |->
            Fill(seed, p, s,
                 IF shape.cut = "payload" /\ s = n
                 THEN shape.sizes[s] - 1 ELSE shape.sizes[s])]]

Section(shape, seed) == [p \in 1..Len(shape) |-> Packet(shape[p], seed, p)]

\* Where the section header may say the first packet lies: on a 4-byte
\* boundary, as the format asks, or off it.
DataOffsets == {0, 2}

\* The bytes PacketHeader::read takes: type, flags, packet_length and
\* bytestream_count of a data packet, the 16 bytes of an index packet header,
\* the 4 bytes of an ignored packet header.
HeaderBytes(kind) ==
    CASE kind = "Data" -> 1 + 1 + 2 + 2
      [] kind = "Index" -> 4 * 4
      [] OTHER -> 1 + 1 + 2

\* PagedReader::align: forward to the next multiple of 4 logical bytes.
align(pos) == pos + ((4 - (pos % 4)) % 4)

\* --------------------------------------------------------------- state
VARIABLES
    pc,            \* the descriptor: records, prototype
    file,          \* the section's packets (input, never written)
    data_offset,   \* logical position of the section's first packet (input)
    cursor,        \* reader: index of the packet whose header is read next
    offset,        \* reader: logical position in bytes
    byte_streams,  \* per stream: unread bits
    read,          \* points emitted
    queues,        \* per stream: decoded values not yet emitted
    buffer_sizes,  \* per stream: payload size of the last data packet
    buffer,        \* scratch bytes
    history        \* results of the next() calls so far, oldest first

vars ==
    << pc, file, data_offset, cursor, offset, byte_streams, read, queues,
       buffer_sizes, buffer, history >>

\* PointCloudReaderRaw::new
Init ==
    /\ \E proto \in Prototypes, records \in 0..MaxRecords :
          pc = [records |-> records, prototype |-> proto]
    /\ \E seed \in Seeds, shape \in SectionShapes(pc.prototype) :
          file = Section(shape, seed)
    /\ data_offset \in DataOffsets
    /\ cursor = 1
    /\ offset = data_offset
    /\ read = 0
    /\ byte_streams = [i \in 1..Len(pc.prototype) |-> <<>>]
    /\ queues = [i \in 1..Len(pc.prototype) |-> <<>>]
    /\ buffer_sizes = [i \in 1..Len(pc.prototype) |-> 0]
    /\ buffer = <<>>
    /\ history = <<>>

\* --------------------------------------------------------- the iterator
\* available_in_queue taking the longest queue instead of the shortest.
available_in_queue_longest(qs) ==
    IF Len(qs) = 0 THEN 0
    ELSE CHOOSE av \in { Len(qs[i]) : i \in 1..Len(qs) } :
            \A i \in 1..Len(qs) : av >= Len(qs[i])

\* PointCloudReaderRaw::available_in_queue
available_in_queue(qs) ==
    IF Len(qs) = 0 THEN 0
    ELSE CHOOSE av \in { Len(qs[i]) : i \in 1..Len(qs) } :
            \A i \in 1..Len(qs) : av <= Len(qs[i])

\* f[1] + ... + f[n]
RECURSIVE SumTo(_, _)
SumTo(f, n) == IF n = 0 THEN 0 ELSE f[n] + SumTo(f, n - 1)

\* The least index of the set bad, n + 1 when it is empty: where a loop over
\* 1..n with an early return stops.
FirstBad(n, bad) ==
    IF bad = {} THEN n + 1
    ELSE CHOOSE i \in bad : \A j \in bad : i <= j

\* pop_queue_point taking the newest value of every queue (pop_back).
pop_queue_point_back(qs) ==
    LET n == Len(pc.prototype)
        f == FirstBad(n, { i \in 1..n : qs[i] = <<>> })
    IN [err |-> IF f <= n THEN "Internal" ELSE "ok",
        point |-> IF f <= n THEN <<>> ELSE [i \in 1..n |-> qs[i][Len(qs[i])]],
        queues |-> [i \in 1..Len(qs) |->
                       IF i < f /\ i <= n THEN SubSeq(qs[i], 1, Len(qs[i]) - 1)
                       ELSE qs[i]]]

\* pop_queue_point removing the value of the first queue only and copying
\* the front of the others (front instead of pop_front).
pop_queue_point_front(qs) ==
    LET n == Len(pc.prototype)
        f == FirstBad(n, { i \in 1..n : qs[i] = <<>> })
    IN [err |-> IF f <= n THEN "Internal" ELSE "ok",
        point |-> IF f <= n THEN <<>> ELSE [i \in 1..n |-> Head(qs[i])],
        queues |-> [i \in 1..Len(qs) |->
                       IF i < f /\ i = 1 THEN Tail(qs[i]) ELSE qs[i]]]

\* PointCloudReaderRaw::pop_queue_point: pops the queues in field order and
\* stops at the first empty one, the earlier ones already popped.
pop_queue_point(qs) ==
    LET n == Len(pc.prototype)
        f == FirstBad(n, { i \in 1..n : qs[i] = <<>> })
    IN [err |-> IF f <= n THEN "Internal" ELSE "ok",
        point |-> IF f <= n THEN <<>> ELSE [i \in 1..n |-> Head(qs[i])],
        queues |-> [i \in 1..Len(qs) |-> IF i < f /\ i <= n THEN Tail(qs[i]) ELSE qs[i]]]

\* The reader's state as advance() finds it.
Current ==
    [err |-> "ok", cursor |-> cursor, offset |-> offset, byte_streams |-> byte_streams,
     queues |-> queues, buffer_sizes |-> buffer_sizes, buffer |-> buffer]

EndOfFile == Len(file) + 1

\* A resize that only grows: a shorter stream keeps the longer buffer.
Resize_grow(buf, n) == [k \in 1..(IF n > Len(buf) THEN n ELSE Len(buf)) |->
                           IF k <= Len(buf) THEN buf[k] ELSE 0]

\* Vec::resize(n, 0)
Resize(buf, n) == [k \in 1..n |-> IF k <= Len(buf) THEN buf[k] ELSE 0]

\* Read::read_exact into buf from the bytes the file has for the stream: it
\* overwrites buf from its start (and fails when the file ends before buf is
\* full, see read_payloads).
read_exact(buf, bytes) ==
    [k \in 1..Len(buf) |-> IF k <= Len(bytes) THEN bytes[k] ELSE buf[k]]

\* advance(), the loop reading the stream sizes: two bytes per stream; the
\* read fails where the file ends.
read_sizes(header, st) ==
    LET n == header.bytestream_count
        have == Len(header.sizes)
    IN [st EXCEPT
          !.err = IF have < n THEN "Read" ELSE "ok",
          !.cursor = IF have < n THEN EndOfFile ELSE st.cursor,
          !.offset = st.offset + 2 * have,
          !.buffer_sizes = [i \in 1..Len(st.buffer_sizes) |->
                               IF i <= have THEN header.sizes[i]
                               ELSE st.buffer_sizes[i]]]

\* advance(), the scratch buffer after the i-th round of the payload loop:
\* the buffer of the round before, resized to the stream's size and filled
\* from the file.
RECURSIVE scratch(_, _, _)
scratch(header, st, i) ==
    IF i = 0 THEN st.buffer
    ELSE read_exact(Resize(scratch(header, st, i - 1), st.buffer_sizes[i]),
                    header.payload[i])

\* advance(), the loop reading the payloads: each round appends the scratch
\* buffer to the stream's buffer; the read fails where the file ends.
read_payloads(header, st) ==
    LET n == Len(st.buffer_sizes)
        f == FirstBad(n, { i \in 1..n : Len(header.payload[i]) < st.buffer_sizes[i] })
        last == IF f <= n THEN f ELSE n
    IN [st EXCEPT
          !.err = IF f <= n THEN "Read" ELSE "ok",
          !.cursor = IF f <= n THEN EndOfFile ELSE st.cursor,
          !.offset = st.offset
                     + SumTo([i \in 1..n |-> IF i <= f THEN Len(header.payload[i]) ELSE 0], n),
          !.buffer = scratch(header, st, last),
          !.byte_streams = [i \in 1..Len(st.byte_streams) |->
                               IF i < f THEN append(st.byte_streams[i], scratch(header, st, i))
                               ELSE st.byte_streams[i]]]

\* The match with the decoders of the two integer kinds exchanged.
unpack_exchanged(t, bs, q) ==
    CASE t.kind = "Single" -> unpack_singles(bs, q)
      [] t.kind = "Double" -> unpack_doubles(bs, q)
      [] t.kind = "ScaledInteger" -> unpack_ints(bs, t.min, t.max, q)
      [] t.kind = "Integer" -> unpack_scaled_ints(bs, t.min, t.max, q)

\* advance(), the match on the column's data type.
unpack(t, bs, q) ==
    CASE t.kind = "Single" -> unpack_singles(bs, q)
      [] t.kind = "Double" -> unpack_doubles(bs, q)
      [] t.kind = "ScaledInteger" -> unpack_scaled_ints(bs, t.min, t.max, q)
      [] t.kind = "Integer" -> unpack_ints(bs, t.min, t.max, q)

\* A queue after a decoder pushed onto it: each new value is marked with the
\* packet whose ingestion decoded it and its place among that packet's values
\* of the stream (a history annotation; the program keeps tag and v only).
Stamp(old, new, p) ==
    [k \in 1..Len(new) |->
        IF k <= Len(old) THEN new[k]
        ELSE [tag |-> new[k].tag, v |-> new[k].v, pkt |-> p, idx |-> k - Len(old)]]

\* advance(), the loop over the prototype: stops at the first decoder error.
unpack_all(st, p) ==
    LET n == Len(pc.prototype)
        r == [i \in 1..n |-> unpack(pc.prototype[i], st.byte_streams[i], st.queues[i])]
        e == FirstBad(n, { i \in 1..n : r[i].err # "ok" })
    IN [st EXCEPT
          !.err = IF e <= n THEN r[e].err ELSE "ok",
          !.byte_streams = [i \in 1..n |-> IF i < e THEN r[i].bs ELSE st.byte_streams[i]],
          !.queues = [i \in 1..n |->
                         IF i < e THEN Stamp(st.queues[i], r[i].q, p) ELSE st.queues[i]]]

\* The check rejecting only packets with too few streams (< for !=).
count_matches_at_least(header) == header.bytestream_count >= Len(byte_streams)

\* advance(), the check of the data packet's bytestream count.
count_matches(header) == header.bytestream_count = Len(byte_streams)

\* The match reporting an Ignored packet as an invalid file.
header_check_ignored_invalid(header) ==
    CASE header.kind = "Index" -> "NotImplemented"
      [] header.kind = "Ignored" -> "Invalid"
      [] ~count_matches(header) -> "Invalid"
      [] OTHER -> "ok"

\* advance(), the match on the packet header up to the first read of the
\* packet's body: the error it returns, "ok" when it reads on.
header_check(header) ==
    CASE header.kind = "Index" -> "NotImplemented"
      [] header.kind = "Ignored" -> "NotImplemented"
      [] ~count_matches(header) -> "Invalid"
      [] OTHER -> "ok"

\* advance() returning without the final reader.align().
advance_unaligned ==
    IF cursor > Len(file) THEN [Current EXCEPT !.err = "Read"]
    ELSE LET header == file[cursor]
             behind == [Current EXCEPT !.cursor = cursor + 1,
                                       !.offset = offset + HeaderBytes(header.kind)]
         IN IF header_check(header) # "ok"
            THEN [behind EXCEPT !.err = header_check(header)]
            ELSE LET s1 == read_sizes(header, behind)
                     s2 == IF s1.err = "ok" THEN read_payloads(header, s1) ELSE s1
                 IN IF s2.err = "ok" THEN unpack_all(s2, cursor) ELSE s2

\* PointCloudReaderRaw::advance: the state it leaves and its error ("ok" when
\* it returns Ok).
advance ==
    IF cursor > Len(file) THEN [Current EXCEPT !.err = "Read"]
    ELSE LET header == file[cursor]
             behind == [Current EXCEPT !.cursor = cursor + 1,
                                       !.offset = offset + HeaderBytes(header.kind)]
         IN IF header_check(header) # "ok"
            THEN [behind EXCEPT !.err = header_check(header)]
            ELSE LET s1 == read_sizes(header, behind)
                     s2 == IF s1.err = "ok" THEN read_payloads(header, s1) ELSE s1
                     s3 == IF s2.err = "ok" THEN unpack_all(s2, cursor) ELSE s2
                 IN IF s3.err = "ok" THEN [s3 EXCEPT !.offset = align(s3.offset)] ELSE s3

\* The items next() returns.
None == [kind |-> "None", err |-> "ok", point |-> <<>>]
SomeErr(e) == [kind |-> "Err", err |-> e, point |-> <<>>]
SomeOk(p) == [kind |-> "Ok", err |-> "ok", point |-> p]

\* The test letting one more point through (> for >=).
records_read_past == read > pc.records

\* Iterator::next, the first test: all declared records were returned.
records_read == read >= pc.records

\* Iterator::next: the reader's state after the call, the item returned, the
\* queues as the refill left them and the number of advance() calls made.
next_step ==
    IF records_read
    THEN [st |-> Current, read |-> read, item |-> None, refilled |-> queues, advances |-> 0]
    ELSE LET refill == available_in_queue(queues) < 1
             a == IF refill THEN advance ELSE Current
             n == IF refill THEN 1 ELSE 0
         IN IF a.err # "ok"
            THEN [st |-> a, read |-> read, item |-> SomeErr(a.err), refilled |-> a.queues,
                  advances |-> n]
            ELSE IF available_in_queue(a.queues) < 1
                 THEN [st |-> a, read |-> read, item |-> None, refilled |-> a.queues,
                       advances |-> n]
                 ELSE LET p == pop_queue_point(a.queues)
                          b == [a EXCEPT !.queues = p.queues]
                      IN IF p.err = "ok"
                         THEN [st |-> b, read |-> read + 1, item |-> SomeOk(p.point),
                               refilled |-> a.queues, advances |-> n]
                         ELSE [st |-> b, read |-> read, item |-> SomeErr(p.err),
                               refilled |-> a.queues, advances |-> n]

\* One call of next().  The history keeps, for each call, the item returned
\* and annotations: emitted and held are self.read and the queue lengths when
\* the call began, advances the number of advance() calls it made, taken[i]
\* the number of values it removed from queue i.
next ==
    /\ Len(history) < MaxCalls
    /\ \E r \in { next_step } :
          /\ cursor' = r.st.cursor
          /\ offset' = r.st.offset
          /\ byte_streams' = r.st.byte_streams
          /\ queues' = r.st.queues
          /\ buffer_sizes' = r.st.buffer_sizes
          /\ buffer' = r.st.buffer
          /\ read' = r.read
          /\ history' = Append(history,
                [kind |-> r.item.kind, err |-> r.item.err, point |-> r.item.point,
                 emitted |-> read,
                 held |-> [i \in 1..Len(queues) |-> Len(queues[i])],
                 advances |-> r.advances,
                 taken |-> [i \in 1..Len(queues) |->
                              Len(r.refilled[i]) - Len(r.st.queues[i])]])
    /\ UNCHANGED << pc, file, data_offset >>

\* Iterator::size_hint
size_hint == << pc.records - read, pc.records - read >>

Next == next

Spec == Init /\ [][Next]_vars

\* ------------------------------------------------------------ properties
Streams == 1..Len(pc.prototype)
Calls == 1..Len(history)
Last == history[Len(history)]

\* The points emitted by the first k calls.
OkCount(k) == Cardinality({ j \in 1..k : history[j].kind = "Ok" })

\* The first call that returned end-of-stream.
FirstEnd(k) ==
    /\ history[k].kind = "None"
    /\ \A j \in 1..(k - 1) : history[j].kind # "None"

\* A packet that lies whole in the file and has one stream per column.
WholeData(pk) ==
    /\ pk.kind = "Data"
    /\ pk.bytestream_count = Len(pc.prototype)
    /\ Len(pk.sizes) = pk.bytestream_count
    /\ \A s \in 1..Len(pk.sizes) : Len(pk.payload[s]) = pk.sizes[s]

\* The bytes the section holds for stream i.
StreamBytes(i) == SumTo([p \in 1..Len(file) |-> Len(file[p].payload[i])], Len(file))

\* The bytes `records` values of column i take: the values packed back to
\* back, the last byte padded.
NeededBytes(i) == (pc.records * ValueBits(pc.prototype[i]) + 7) \div 8

\* A valid file: every range is in order, every packet is a whole data packet
\* of the prototype's streams, and the packets together carry exactly the
\* records values of every stream, however they are spread over the packets.
ValidFile ==
    /\ \A i \in Streams : pc.prototype[i].min <= pc.prototype[i].max
    /\ \A p \in 1..Len(file) : WholeData(file[p])
    /\ \A i \in Streams : StreamBytes(i) = NeededBytes(i)

\* C1: for a valid file, the calls of next() up to the first end-of-stream
\* return exactly descriptor.records points and no error.
C1_CountValidFile ==
    ValidFile =>
        \A k \in Calls :
            FirstEnd(k) =>
                /\ OkCount(k) = pc.records
                /\ \A j \in 1..k : history[j].kind # "Err"

\* C2: once next() has returned an error, every later call returns
\* end-of-stream.
C2_Poisoned ==
    \A j, k \in Calls :
        (j < k /\ history[j].kind = "Err") => history[k].kind = "None"

\* C3: every point returned has one value per column of the prototype, and
\* value i has the variant of column i's data type.
C3_Arity ==
    \A k \in Calls :
        history[k].kind = "Ok" =>
            /\ Len(history[k].point) = Len(pc.prototype)
            /\ \A i \in Streams :
                  history[k].point[i].tag = pc.prototype[i].kind

\* A point of two columns of different kinds was returned after the second
\* packet was ingested.
C3_Witness ==
    /\ Len(history) >= 1
    /\ Last.kind = "Ok"
    /\ Len(pc.prototype) = 2
    /\ pc.prototype[1].kind # pc.prototype[2].kind
    /\ cursor = 3

\* The bits of stream i in the whole data packets of the first n packets, in
\* file order.
RECURSIVE StreamBits(_, _)
StreamBits(i, n) ==
    IF n = 0 THEN <<>>
    ELSE StreamBits(i, n - 1)
         \o (IF WholeData(file[n]) THEN ByteBits(file[n].payload[i]) ELSE <<>>)

\* The n-th value of stream i, the stream read as one run of bits.
ValueAt(i, n) ==
    LET t == pc.prototype[i]
        bits == StreamBits(i, Len(file))
    IN CASE t.kind = "Single" -> FieldBytes(bits, 4, n)
         [] t.kind = "Double" -> FieldBytes(bits, 8, n)
         [] OTHER -> t.min + BitsValue(Field(bits, BitsFor(t.min, t.max), n))

C5_SizeHint ==
    /\ size_hint = << pc.records - OkCount(Len(history)),
                      pc.records - OkCount(Len(history)) >>
    /\ (ValidFile /\ \E k \in Calls : history[k].kind = "None")
           => size_hint = << 0, 0 >>

\* C6: every Integer or ScaledInteger value returned in a point lies in the
\* declared range of its column.
C6_Range ==
    \A k \in Calls :
        history[k].kind = "Ok" =>
            \A i \in Streams :
                pc.prototype[i].kind \in {"Integer", "ScaledInteger"} =>
                    /\ pc.prototype[i].min <= history[k].point[i].v
                    /\ history[k].point[i].v <= pc.prototype[i].max

\* C7: every call of next() either returns a point and has removed exactly
\* one value from every queue, the values of the point, or returns no point
\* and has removed no value from any queue; it never fails to pop.
C7_Atomic ==
    /\ \A k \in Calls :
          /\ history[k].err # "Internal"
          /\ \/ /\ history[k].kind = "Ok"
                /\ \A i \in Streams : history[k].taken[i] = 1
             \/ /\ history[k].kind # "Ok"
                /\ \A i \in Streams : history[k].taken[i] = 0
    /\ (Len(history) >= 1 /\ Last.kind = "Ok") =>
          \A i \in Streams :
              \A n \in 1..Len(queues[i]) : queues[i][n] # Last.point[i]

\* A call returned end-of-stream although records were outstanding and the
\* packet it ingested had filled one queue and left another empty.
C7_Witness ==
    /\ Len(history) >= 1
    /\ Last.kind = "None"
    /\ read < pc.records
    /\ \E i \in Streams : queues[i] # <<>>
    /\ \E i \in Streams : queues[i] = <<>>

\* The call of next() made now reads the header of the packet at the cursor.
Refills ==
    /\ Len(history) < MaxCalls
    /\ read < pc.records
    /\ available_in_queue(queues) < 1
    /\ cursor <= Len(file)

\* The call of next() made now left buffers, queues and the count of points
\* as they were and returned the error e.
FailsUntouched(e) ==
    /\ history'[Len(history')].kind = "Err"
    /\ history'[Len(history')].err = e
    /\ byte_streams' = byte_streams
    /\ queues' = queues
    /\ read' = read

\* C8: a call that reads a data packet whose bytestream count is not the
\* prototype's length returns an InvalidFile error and changes no byte-stream
\* buffer, no queue and not the count of points.
C8_Mismatch ==
    [][ ( /\ Refills
          /\ file[cursor].kind = "Data"
          /\ file[cursor].bytestream_count # Len(pc.prototype) )
        => FailsUntouched("Invalid") ]_vars

\* The last call met such a packet while a buffer held pending bits.
C8_Witness ==
    /\ Len(history) >= 1
    /\ Last.err = "Invalid"
    /\ cursor >= 2
    /\ file[cursor - 1].kind = "Data"
    /\ file[cursor - 1].bytestream_count # Len(pc.prototype)
    /\ \E i \in Streams : byte_streams[i] # <<>>

\* C9: a call that reads an Index or Ignored packet header returns an
\* Unimplemented error (not InvalidFile) and changes no byte-stream buffer,
\* no queue and not the count of points.
C9_Unimplemented ==
    [][ (Refills /\ file[cursor].kind \in {"Index", "Ignored"})
        => FailsUntouched("NotImplemented") ]_vars

\* The last call met an Ignored packet while a buffer held pending bits.
C9_Witness ==
    /\ Len(history) >= 1
    /\ Last.err = "NotImplemented"
    /\ cursor >= 2
    /\ file[cursor - 1].kind = "Ignored"
    /\ \E i \in Streams : byte_streams[i] # <<>>

\* next() has returned end-of-stream after all records of a valid file.
Drained ==
    /\ ValidFile
    /\ Len(history) >= 1
    /\ Last.kind = "None"
    /\ read = pc.records

\* C10 as stated: after the drain every queue is empty and every buffer holds
\* fewer bits than one value of its column.
C10_DrainedEmpty ==
    Drained =>
        \A i \in Streams :
            /\ queues[i] = <<>>
            /\ Len(byte_streams[i]) < ValueBits(pc.prototype[i])

\* C10 amended: after the drain every buffer holds fewer bits than one value
\* of its column (none when the column has zero bits per value), and every
\* queue holds only what the padding bits of the stream's last byte decode
\* to: values of fewer than 8 bits in all, so none for a column of 8 or more
\* bits per value.
C10_DrainedResidue ==
    Drained =>
        \A i \in Streams :
            /\ Len(queues[i]) * ValueBits(pc.prototype[i]) < 8
            /\ \/ Len(byte_streams[i]) < ValueBits(pc.prototype[i])
               \/ /\ ValueBits(pc.prototype[i]) = 0
                  /\ byte_streams[i] = <<>>

\* A drained section of at least one record whose queues still hold values
\* decoded from padding.
C10_Witness ==
    /\ Drained
    /\ read >= 1
    /\ \E i \in Streams : queues[i] # <<>>

PacketBytes(header) ==
    HeaderBytes("Data") + 2 * header.bytestream_count
    + SumTo(header.sizes, Len(header.sizes))

Ingesting == { k \in Calls : history[k].advances = 1 }

\* C12: every next() call so far called advance() once if it began with
\* read < records and some queue empty, and not at all otherwise; the reader
\* has moved past no more packet headers than there were such calls.
C12_OneIngestion ==
    /\ \A k \in Calls :
          history[k].advances =
             IF /\ history[k].emitted < pc.records
                /\ \E i \in Streams : history[k].held[i] = 0
             THEN 1 ELSE 0
    /\ cursor - 1 <= Cardinality(Ingesting)

\* A call began with one queue empty and another holding values and called
\* advance(); another began with every queue holding values and did not.
C12_Witness ==
    /\ \E k \in Ingesting : \E i \in Streams : history[k].held[i] > 0
    /\ \E k \in Calls \ Ingesting :
          /\ history[k].emitted < pc.records
          /\ \A i \in Streams : history[k].held[i] > 0

\* C13: a next() call that begins with read < records and an empty queue,
\* and whose advance() succeeds leaving some queue empty, returns
\* end-of-stream, leaves the queues as advance() filled them and leaves read
\* as it was.
C13_StillEmpty ==
    [][ ( /\ read < pc.records
          /\ \E i \in Streams : queues[i] = <<>>
          /\ advance.err = "ok"
          /\ \E i \in Streams : advance.queues[i] = <<>> )
        => ( /\ history'[Len(history')].kind = "None"
             /\ history'[Len(history')].advances = 1
             /\ queues' = advance.queues
             /\ read' = read ) ]_vars

\* The last call ingested a packet that filled one queue and left another
\* empty, and returned end-of-stream before the declared count was reached.
C13_Witness ==
    /\ Len(history) > 0
    /\ Last.kind = "None"
    /\ Last.advances = 1
    /\ Last.emitted < pc.records
    /\ \E i, j \in Streams : queues[i] = <<>> /\ Len(queues[j]) > Last.held[j]

\* The stream buffer i as the payload loop must leave it when the packet
\* under the reader is ingested: the unread bits followed by the bits of the
\* packet's bytes for stream i, when the loop reaches the end of that stream.
Received(i) ==
    LET header == file[cursor]
        f == FirstBad(Len(header.sizes),
                      { j \in 1..Len(header.sizes) : Len(header.payload[j]) < header.sizes[j] })
    IN IF i < f THEN byte_streams[i] \o ByteBits(header.payload[i]) ELSE byte_streams[i]

\* The next call of next() reads a data packet with a stream per column and
\* all its sizes.
IngestsData ==
    /\ read < pc.records
    /\ \E i \in Streams : queues[i] = <<>>
    /\ cursor <= Len(file)
    /\ header_check(file[cursor]) = "ok"
    /\ Len(file[cursor].sizes) = file[cursor].bytestream_count

\* C14: when next() ingests a data packet, the payload loop leaves in stream
\* buffer i its unread bits followed by the bits of the s_i bytes of stream i
\* and nothing else (a stream of size 0 keeps its buffer); what the call
\* leaves in the buffer is the tail of that which the decoder did not take.
C14_Payloads ==
    [][ IngestsData =>
          \A i \in Streams :
             /\ read_payloads(file[cursor],
                              read_sizes(file[cursor], Current)).byte_streams[i]
                = Received(i)
             /\ (file[cursor].sizes[i] = 0 /\ Len(file[cursor].payload[i]) = 0)
                   => Received(i) = byte_streams[i]
             /\ Len(byte_streams'[i]) <= Len(Received(i))
             /\ byte_streams'[i]
                = Drop(Received(i), Len(Received(i)) - Len(byte_streams'[i])) ]_vars

\* The second packet was ingested: it brought bytes to a stream that held
\* unread bits of the first packet and none to a later stream.
C14_Witness ==
    /\ Len(history) > 0
    /\ Last.advances = 1
    /\ Last.err = "ok"
    /\ cursor = 3
    /\ \E i, j \in Streams :
          /\ i < j
          /\ file[2].sizes[i] > 0
          /\ file[2].sizes[j] = 0
          /\ ValueBits(pc.prototype[i]) > 0
          /\ (8 * file[1].sizes[i]) % ValueBits(pc.prototype[i]) # 0

\* The number of whole values of stream i in the first p packets, the bits
\* of the stream read as one run.
ValuesUpTo(i, p) ==
    IF ValueBits(pc.prototype[i]) = 0 THEN 0
    ELSE (8 * SumTo([q \in 1..p |-> file[q].sizes[i]], p)) \div ValueBits(pc.prototype[i])

\* Every packet the reader has passed brought every stream the same number
\* of values, and no call failed.
EvenSoFar ==
    /\ \A k \in Calls : history[k].kind # "Err"
    /\ \A p \in 1..(cursor - 1) :
          /\ WholeData(file[p])
          /\ \A i, j \in Streams : ValuesUpTo(i, p) = ValuesUpTo(j, p)

\* C15 as stated: for a valid file, every call of next() that called
\* advance() began with every queue empty.
C15_AllEmpty ==
    ValidFile => \A k \in Ingesting : \A i \in Streams : history[k].held[i] = 0

\* C15: every call of next() that called advance() began with some queue
\* empty; the queues are all of one length, and so empty together, as long
\* as every packet ingested brought every stream the same number of values.
C15_SomeEmpty ==
    /\ \A k \in Ingesting : \E i \in Streams : history[k].held[i] = 0
    /\ EvenSoFar => \A i, j \in Streams : Len(queues[i]) = Len(queues[j])

\* Two packets brought values evenly to two streams and points came out.
EvenRun ==
    /\ EvenSoFar
    /\ cursor = 3
    /\ Len(pc.prototype) = 2
    /\ read > 0

\* In a valid file, a call of next() called advance() while a queue held
\* values.
C15_Witness ==
    /\ ValidFile
    /\ \E k \in Ingesting : \E i \in Streams : history[k].held[i] > 0

\* The columns of one value only (min = max, zero bits a value).
Degenerate == { i \in Streams : pc.prototype[i].kind \in {"Integer", "ScaledInteger"}
                                 /\ pc.prototype[i].min = pc.prototype[i].max }

\* C16: a degenerate column gets nothing into its queue, every point
\* returned carries the column's constant, and a valid file whose prototype
\* has such a column yields descriptor.records points up to the first
\* end-of-stream.
C16_Degenerate ==
    (ValidFile /\ Degenerate # {}) =>
        /\ \A i \in Degenerate : queues[i] = <<>>
        /\ \A k \in Calls : \A i \in Degenerate :
              history[k].kind = "Ok" => history[k].point[i].v = pc.prototype[i].min
        /\ \A k \in Calls : FirstEnd(k) => OkCount(k) = pc.records

\* The calls a consumer makes that stops at the first end-of-stream or
\* error: those before which every call returned a point.
Consumed == { k \in Calls : \A j \in 1..(k - 1) : history[j].kind = "Ok" }

\* C17: read stays within 0..records, never decreases from call to call,
\* and equals the number of points returned so far; the subtraction of
\* size_hint does not go below 0.
C17_Emitted ==
    /\ 0 <= read /\ read <= pc.records
    /\ read = OkCount(Len(history))
    /\ \A k \in Calls :
          /\ history[k].emitted = OkCount(k - 1)
          /\ history[k].emitted <= read
          /\ \A j \in 1..k : history[j].emitted <= history[k].emitted
    /\ size_hint[1] >= 0 /\ size_hint[2] >= 0

\* All declared records were returned, the last of them by the last call,
\* which left values in a queue.
C17_Witness ==
    /\ Len(history) > 0
    /\ Last.kind = "Ok"
    /\ read = pc.records
    /\ read = MaxRecords
    /\ \E i \in Streams : queues[i] # <<>>

\* C18: once read = records, a call of next() returns end-of-stream, calls
\* advance() not at all and leaves the reader, the stream buffers, the
\* queues, the scratch buffer and read as they were.
C18_Exhausted ==
    [][ read = pc.records =>
          /\ history'[Len(history')].kind = "None"
          /\ history'[Len(history')].advances = 0
          /\ UNCHANGED << cursor, offset, byte_streams, queues, buffer_sizes, buffer, read >>
      ]_vars

\* The last call returned end-of-stream with all records returned before it,
\* values left in every queue and a packet left in the file.
C18_Witness ==
    /\ Len(history) > 0
    /\ Last.kind = "None"
    /\ Last.emitted = pc.records
    /\ pc.records > 0
    /\ \A i \in Streams : queues[i] # <<>>
    /\ cursor <= Len(file)

\* C19: a consumer that stops at the first end-of-stream or error makes at
\* most records + 1 calls; each of them calls advance() at most once, so at
\* most records + 1 packets are ingested, and none by a call made once
\* records points were returned.
C19_Terminates ==
    /\ \A k \in Consumed : k <= pc.records + 1
    /\ \A k \in Calls : history[k].advances <= 1
    /\ Cardinality(Consumed \cap Ingesting) <= pc.records + 1
    /\ Consumed = Calls => cursor - 1 <= Cardinality(Ingesting)
    /\ \A k \in Consumed : k = pc.records + 1 =>
          /\ history[k].kind = "None"
          /\ history[k].advances = 0

\* The consumer made records + 1 calls, for the largest record count, the
\* last returning end-of-stream, one of them having ingested a packet.
C19_Witness ==
    /\ pc.records = MaxRecords
    /\ Len(history) = pc.records + 1
    /\ Consumed = Calls
    /\ Last.kind = "None"
    /\ Ingesting # {}

====
